---- MODULE Spec2Model ----
(***************************************************************************)
(* Peer registry and signal routing of the WebRTC signaling server         *)
(* (src/api/index.ts).  One action per Socket.IO event the server handles: *)
(* "connection", "signal" and "disconnect".  Node runs every listener to   *)
(* completion, so each handler is one atomic step.                         *)
(***************************************************************************)
EXTENDS Integers, Sequences, FiniteSets, TLC

\* ------------------------------------------------------------------ bounds
\* number of connections the transport accepts in one run
MaxPeers == 3
\* number of "signal" events whose delivery is recorded in one run
MaxSignals == 2
\* number of times the connection handler may run for one socket
MaxListeners == 2
\* number of "disconnect" notifications delivered for one socket
MaxDisconnects == 2
\* length of the TURN_URL string
MaxUrlLen == 3

\* ------------------------------------------------------------- value sets
SocketNames == <<"s1", "s2", "s3", "s4", "s5", "s6">>

\* the ids the transport can hand out (socket.id)
SocketIds == {SocketNames[i] : i \in 1..MaxPeers}

\* a handler argument the client did not send
Undefined == "undefined"

\* keys every object literal inherits from Object.prototype
ObjectPrototypeKeys == {"constructor"}

\* signaling payloads (opaque to the server)
Payloads == {"offer", "candidate"}

\* values a client can put in the three arguments of a "signal" event
ToArgs == SocketIds \cup ObjectPrototypeKeys \cup {Undefined}

\* `from` is only ever forwarded, so two ids and "missing" cover its cases
FromArgs == {SocketNames[1], SocketNames[2], Undefined}

DataArgs == Payloads \cup {Undefined}

\* ------------------------------------------------------------------ state
VARIABLES
    peers,      \* own keys of the `peers` object (every value is {})
    sockets,    \* sockets the io server holds open (namespace "/")
    closed,     \* socket ids whose connection has been closed
    listeners,  \* per socket: how many "signal"/"disconnect" listeners are attached
    received,   \* per socket: the "signal" events delivered to it (sender, number), in order
    nsignals,   \* number of "signal" events recorded so far
    intros,     \* per socket id: number of "introduction" messages sent to it
    joins,      \* per socket id: number of "newUserConnected(id)" broadcasts
    leaves,     \* per socket id: number of "userDisconnected(id)" broadcasts
    last,       \* the event handled last and what the server emitted for it
    env,        \* process.env: TURN_URL, TURN_USERNAME, TURN_PASSWORD
    response    \* the iceServers list of the last /api/ice-config response

vars == <<peers, sockets, closed, listeners, received, nsignals, intros, joins,
          leaves, last, env, response>>

\* the part of the state the /api/ice-config handlers read and write
iceVars == <<env, response>>

\* ---------------------------------------------------------- JS primitives
\* `k in obj` / truthiness of obj[k] for an object whose own values are {}:
\* own keys and the keys inherited from Object.prototype
HasProperty(obj, k) == k \in obj \/ k \in ObjectPrototypeKeys

\* Object.keys(obj): own enumerable keys only
ObjectKeys(obj) == obj

\* the sockets in room `room`: a socket is only ever in the room of its own id
Room(socks, room) == {s \in socks : s = room}

\* one emitted message: event name, the sockets it is delivered to, arguments
Message(ev, rcpt, list, args) == [ev |-> ev, rcpt |-> rcpt, list |-> list, args |-> args]

\* variant: the transport hands a closed socket's id out again
NextIdReused(used) == SocketNames[1]

\* the id the transport gives the next socket: one never used before (ids are
\* opaque, so handing them out in a fixed order loses no behaviour)
NextId(used) == SocketNames[Cardinality(used) + 1]

\* seq repeated n times
RECURSIVE Repeat(_, _)
Repeat(seq, n) == IF n = 0 THEN <<>> ELSE seq \o Repeat(seq, n - 1)

\* ---------------------------------------------------------------- handlers
\* variant: the registry assigned afresh (`peers = {[socket.id]: {}}`)
ConnectionPeersReset(p, id) == IF ~HasProperty(p, id) THEN {id} ELSE p

\* io.on("connection"): registry after the guard at line 122
ConnectionPeers(p, id) == IF ~HasProperty(p, id) THEN p \cup {id} ELSE p

\* variant: the emits moved out of the `if`, so a repeated event emits again
ConnectionEmitsUnguarded(p, socks, id) ==
    << Message("introduction", {id}, ObjectKeys(ConnectionPeers(p, id)), <<>>),
       Message("newUserConnected", socks, {}, <<id>>) >>

\* variant: socket.broadcast.emit in place of io.emit (everyone but the socket)
ConnectionEmitsToOthers(p, socks, id) ==
    IF ~HasProperty(p, id)
    THEN << Message("introduction", {id}, ObjectKeys(ConnectionPeers(p, id)), <<>>),
            Message("newUserConnected", socks \ {id}, {}, <<id>>) >>
    ELSE <<>>

\* variant: lines 124 and 125 in the other order
ConnectionEmitsSwapped(p, socks, id) ==
    IF ~HasProperty(p, id)
    THEN << Message("newUserConnected", socks, {}, <<id>>),
            Message("introduction", {id}, ObjectKeys(ConnectionPeers(p, id)), <<>>) >>
    ELSE <<>>

\* io.on("connection"): what the handler emits; socks are the open sockets
ConnectionEmits(p, socks, id) ==
    IF ~HasProperty(p, id)
    THEN << Message("introduction", {id}, ObjectKeys(ConnectionPeers(p, id)), <<>>),
            Message("newUserConnected", socks, {}, <<id>>) >>
    ELSE <<>>

\* variant: io.emit in place of io.to(to).emit
SignalEmitsToAll(p, socks, to, from, data) ==
    IF HasProperty(p, to)
    THEN << Message("signal", socks, {}, <<from, to, data>>) >>
    ELSE <<>>

\* variant: no membership test, and io.emit in place of io.to(to).emit
SignalEmitsUnguarded(p, socks, to, from, data) ==
    << Message("signal", socks, {}, <<from, to, data>>) >>

\* socket.on("signal"): what one run of the listener emits
SignalEmits(p, socks, to, from, data) ==
    IF HasProperty(p, to)
    THEN << Message("signal", Room(socks, to), {}, <<from, to, data>>) >>
    ELSE <<>>

\* variant: the whole registry dropped (`peers = {}`)
DisconnectPeersCleared(p, id) == {}

\* variant: the `delete` left out
DisconnectPeersKept(p, id) == p

\* socket.on("disconnect"): registry after `delete peers[socket.id]`
DisconnectPeers(p, id) == p \ {id}

\* variant: the broadcast made while the socket is still in its rooms
\* (a "disconnecting" listener)
DisconnectEmitsBeforeLeave(socks, id) ==
    << Message("userDisconnected", socks \cup {id}, {}, <<id>>) >>

\* variant: the broadcast made through both io.emit and io.sockets.emit
DisconnectEmitsTwice(socks, id) ==
    << Message("userDisconnected", socks, {}, <<id>>),
       Message("userDisconnected", socks, {}, <<id>>) >>

\* socket.on("disconnect"): what one run of the listener emits
DisconnectEmits(socks, id) ==
    << Message("userDisconnected", socks, {}, <<id>>) >>

\* variant: the newest message overtakes the ones already on the stream
DeliverFirst(stream, m) == <<m>> \o stream

\* a message put on the receiver's stream
Deliver(stream, m) == Append(stream, m)

\* the stream of socket t after the emits of signal number n from socket s
RECURSIVE DeliverAll(_, _, _, _, _)
DeliverAll(stream, emits, t, s, n) ==
    IF emits = <<>> THEN stream
    ELSE DeliverAll(
            IF t \in Head(emits).rcpt
            THEN Deliver(stream, [sender |-> s, n |-> n])
            ELSE stream,
            Tail(emits), t, s, n)

\* the event record kept in `last`
Event(kind, sock, to, from, data, before, emits) ==
    [kind |-> kind, sock |-> sock, to |-> to, from |-> from, data |-> data,
     before |-> before, emits |-> emits]

\* number of messages named ev in a sequence of emits
RECURSIVE Count(_, _)
Count(emits, ev) ==
    IF emits = <<>> THEN 0
    ELSE (IF Head(emits).ev = ev THEN 1 ELSE 0) + Count(Tail(emits), ev)

\* ------------------------------------------------------------ environment
\* an environment variable: unset (undefined), or set to a string of characters
Unset == [set |-> FALSE, str |-> <<>>]

Str(chars) == [set |-> TRUE, str |-> chars]

\* process.env with none of the TURN variables set
NoEnv == [TURN_URL |-> Unset, TURN_USERNAME |-> Unset, TURN_PASSWORD |-> Unset]

\* the characters of a TURN_URL: a url character, the separator, white space
UrlChars == {"t", ",", " "}

\* the strings of at most n characters
StringsUpTo(n) == UNION {[1..k -> UrlChars] : k \in 0..n}

\* the values of TURN_URL
UrlValues == {Unset} \cup {Str(u) : u \in StringsUpTo(MaxUrlLen)}

\* the values of TURN_USERNAME and TURN_PASSWORD: unset, empty, non-empty
NameValues == {Unset, Str(<<>>), Str(<<"u">>)}

Envs == [TURN_URL : UrlValues, TURN_USERNAME : NameValues, TURN_PASSWORD : NameValues]

\* truthiness of process.env.X: set and not the empty string
Truthy(v) == v.set /\ v.str # <<>>

\* str.split(","): the pieces between the separators
RECURSIVE Split(_)
Split(str) ==
    IF \A k \in DOMAIN str : str[k] # ","
    THEN <<str>>
    ELSE LET i == CHOOSE k \in DOMAIN str :
                      str[k] = "," /\ \A j \in 1..(k - 1) : str[j] # ","
         IN <<SubSeq(str, 1, i - 1)>> \o Split(SubSeq(str, i + 1, Len(str)))

\* u.trim(): white space removed at both ends
RECURSIVE Trim(_)
Trim(u) ==
    IF u = <<>> THEN u
    ELSE IF Head(u) = " " THEN Trim(Tail(u))
    ELSE IF u[Len(u)] = " " THEN Trim(SubSeq(u, 1, Len(u) - 1))
    ELSE u

\* list.map(u => u.trim())
MapTrim(list) == [i \in DOMAIN list |-> Trim(list[i])]

\* the `urls` of a descriptor: one string, a list of strings, or undefined
UrlString(u) == [kind |-> "string", list |-> <<u>>]

UrlList(list) == [kind |-> "list", list |-> list]

UrlUndefined == [kind |-> "undefined", list |-> <<>>]

\* { urls: 'stun:stun.l.google.com:19302' }
StunDescriptor ==
    [urls |-> UrlString(<<"stun:stun.l.google.com:19302">>),
     username |-> Unset, credential |-> Unset]

\* the TURN descriptor built from the environment
TurnDescriptor(e) ==
    [urls |-> UrlList(MapTrim(Split(e.TURN_URL.str))),
     username |-> e.TURN_USERNAME, credential |-> e.TURN_PASSWORD]

\* variant: `||` in place of `&&` at line 51
IceServersAnySet(e) ==
    IF Truthy(e.TURN_URL) \/ Truthy(e.TURN_USERNAME) \/ Truthy(e.TURN_PASSWORD)
    THEN <<StunDescriptor, TurnDescriptor(e)>>
    ELSE <<StunDescriptor>>

\* /api/ice-config of src/api/index.ts: the iceServers it answers with
IceServers(e) ==
    IF Truthy(e.TURN_URL) /\ Truthy(e.TURN_USERNAME) /\ Truthy(e.TURN_PASSWORD)
    THEN <<StunDescriptor, TurnDescriptor(e)>>
    ELSE <<StunDescriptor>>

\* variant: the TURN descriptor left out when TURN_URL is unset
IceServersEarlierGuarded(e) ==
    IF e.TURN_URL.set
    THEN <<StunDescriptor, TurnDescriptor(e)>>
    ELSE <<StunDescriptor>>

\* /api/ice-config of the earlier variant: TURN_URL?.split(...), no test
IceServersEarlier(e) ==
    << StunDescriptor,
       [urls |-> IF e.TURN_URL.set
                 THEN UrlList(MapTrim(Split(e.TURN_URL.str)))
                 ELSE UrlUndefined,
        username |-> e.TURN_USERNAME, credential |-> e.TURN_PASSWORD] >>

\* no /api/ice-config request answered yet
NoResponse == [current |-> <<>>, earlier |-> <<>>]

\* ------------------------------------------------------------------- Init
RegistryInit ==
    /\ peers = {}
    /\ sockets = {}
    /\ closed = {}
    /\ listeners = [s \in SocketIds |-> 0]
    /\ received = [s \in SocketIds |-> <<>>]
    /\ nsignals = 0
    /\ intros = [s \in SocketIds |-> 0]
    /\ joins = [s \in SocketIds |-> 0]
    /\ leaves = [s \in SocketIds |-> 0]
    /\ last = Event("none", Undefined, Undefined, Undefined, Undefined, {}, <<>>)

Init ==
    /\ RegistryInit
    /\ env = NoEnv
    /\ response = NoResponse

\* the server started under any environment
IceInit ==
    /\ RegistryInit
    /\ env \in Envs
    /\ response = NoResponse

\* ---------------------------------------------------------------- actions
\* one run of the connection handler for socket id; socks are the open sockets
RunConnection(id, socks) ==
    LET emits == ConnectionEmits(peers, socks, id) IN
    /\ peers' = ConnectionPeers(peers, id)
    /\ listeners' = [listeners EXCEPT ![id] = @ + 1]
    /\ intros' = [intros EXCEPT ![id] = @ + Count(emits, "introduction")]
    /\ joins' = [joins EXCEPT ![id] = @ + Count(emits, "newUserConnected")]
    /\ last' = Event("connection", id, Undefined, Undefined, Undefined, peers, emits)

\* a new client connects: the transport opens a socket under a fresh id and
\* fires "connection" once
Connection ==
    \E id \in {NextId(sockets \cup closed)} :
        /\ id \in SocketIds
        /\ sockets' = sockets \cup {id}
        /\ RunConnection(id, sockets \cup {id})
        /\ UNCHANGED <<closed, received, nsignals, leaves, iceVars>>

\* the "connection" event is delivered again for a socket that is still open
DuplicateConnection ==
    \E id \in sockets :
        /\ listeners[id] < MaxListeners
        /\ RunConnection(id, sockets)
        /\ UNCHANGED <<sockets, closed, received, nsignals, leaves, iceVars>>

\* variant: a signal whose `from` is not the submitting socket's id is dropped
RunSignalVerified(s, to, from, data) ==
    IF from = s
    THEN Repeat(SignalEmits(peers, sockets, to, from, data), listeners[s])
    ELSE <<>>

\* every "signal" listener attached to socket s runs for signal(to, from, data)
RunSignal(s, to, from, data) ==
    Repeat(SignalEmits(peers, sockets, to, from, data), listeners[s])

\* an open socket submits signal(to, from, data)
Signal ==
    \E s \in sockets, to \in ToArgs, from \in FromArgs, data \in DataArgs :
        /\ last' = Event("signal", s, to, from, data, peers, RunSignal(s, to, from, data))
        /\ UNCHANGED <<peers, sockets, closed, listeners, received, nsignals, intros, joins,
                       leaves, iceVars>>

\* the same event, with the receiving clients' streams recorded
ObservedSignal ==
    \E s \in sockets, to \in ToArgs, from \in FromArgs, data \in DataArgs :
        LET emits == RunSignal(s, to, from, data) IN
        /\ nsignals < MaxSignals
        /\ nsignals' = nsignals + 1
        /\ received' = [t \in SocketIds |->
                            DeliverAll(received[t], emits, t, s, nsignals + 1)]
        /\ last' = Event("signal", s, to, from, data, peers, emits)
        /\ UNCHANGED <<peers, sockets, closed, listeners, intros, joins, leaves, iceVars>>

\* every "disconnect" listener attached to socket id runs; socks are the open sockets
RunDisconnect(id, socks) ==
    LET emits == Repeat(DisconnectEmits(socks, id), listeners[id]) IN
    /\ peers' = DisconnectPeers(peers, id)
    /\ leaves' = [leaves EXCEPT ![id] = @ + Count(emits, "userDisconnected")]
    /\ last' = Event("disconnect", id, Undefined, Undefined, Undefined, peers, emits)
    /\ UNCHANGED <<listeners, received, nsignals, intros, joins, iceVars>>

\* the transport closes socket id (it leaves its rooms) and fires "disconnect"
Disconnect ==
    \E id \in sockets :
        /\ sockets' = sockets \ {id}
        /\ closed' = closed \cup {id}
        /\ RunDisconnect(id, sockets \ {id})

\* the "disconnect" notification is delivered again for a socket already closed
RepeatedDisconnect ==
    \E id \in closed :
        /\ leaves[id] < MaxDisconnects
        /\ RunDisconnect(id, sockets)
        /\ UNCHANGED <<sockets, closed>>

Next == Connection \/ Signal \/ Disconnect

\* the transport as Socket.IO drives it: one "connection" per socket
Spec == Init /\ [][Next]_vars

NextStream == Connection \/ ObservedSignal \/ Disconnect

\* the same transport, with what each client receives recorded
SpecStream == Init /\ [][NextStream]_vars

NextDup == Connection \/ DuplicateConnection \/ Signal \/ Disconnect

\* a transport that may repeat the "connection" event of a live socket
SpecDup == Init /\ [][NextDup]_vars

\* the part of the state the Socket.IO handlers read and write
registryVars == <<peers, sockets, closed, listeners, received, nsignals, intros, joins,
                  leaves, last>>

\* GET /api/ice-config answered by the handler of src/api/index.ts
IceConfig ==
    /\ response' = [response EXCEPT !.current = IceServers(env)]
    /\ UNCHANGED <<env, registryVars>>

\* GET /api/ice-config answered by the handler of the earlier variant
IceConfigEarlier ==
    /\ response' = [response EXCEPT !.earlier = IceServersEarlier(env)]
    /\ UNCHANGED <<env, registryVars>>

NextIce == IceConfig \/ IceConfigEarlier

\* the two /api/ice-config handlers under every environment
SpecIce == IceInit /\ [][NextIce]_vars

NextRepeat == Connection \/ Signal \/ Disconnect \/ RepeatedDisconnect

\* a transport that may repeat the "disconnect" notification of a closed socket
SpecRepeat == Init /\ [][NextRepeat]_vars

\* ------------------------------------------------------- claim vocabulary
\* every socket some message of emits is delivered to
Recipients(emits) == UNION {emits[i].rcpt : i \in DOMAIN emits}

\* the messages of emits named ev
Named(emits, ev) == {i \in DOMAIN emits : emits[i].ev = ev}

\* the last event was a "connection" that registered its socket
Joined == last.kind = "connection" /\ last.sock \notin last.before

\* the last event was a "connection" for a socket already registered
Rejoined == last.kind = "connection" /\ last.sock \in last.before

\* the last event was a "signal" with one of its three arguments missing
Malformed ==
    /\ last.kind = "signal"
    /\ (last.to = Undefined \/ last.from = Undefined \/ last.data = Undefined)

\* ----------------------------------------------------------------- claims
\* C1: the introduction sent to a joining peer P lists exactly the registry
\* as it was before P was registered, so never P itself.
C1_IntroductionExcludesSelf ==
    Joined =>
        \A i \in Named(last.emits, "introduction") :
            /\ last.emits[i].list = last.before
            /\ last.sock \notin last.emits[i].list

\* C2: a signal(to, from, payload) handled while `to` is registered yields
\* exactly one message, a "signal" delivered to `to` alone, carrying from and
\* payload as submitted.
C2_SignalRoutedToTarget ==
    (last.kind = "signal" /\ last.to \in last.before) =>
        /\ Len(last.emits) = 1
        /\ last.emits[1].ev = "signal"
        /\ last.emits[1].rcpt = {last.to}
        /\ last.emits[1].args = <<last.from, last.to, last.data>>

C2_Witness ==
    /\ last.kind = "signal"
    /\ last.to \in last.before
    /\ last.to # last.sock
    /\ last.from \notin {last.sock, Undefined}
    /\ last.data = "candidate"
    /\ Cardinality(sockets) = 3
    /\ Recipients(last.emits) = {last.to}

\* C3: a signal whose `to` is not registered is delivered to nobody (not to
\* `to`, not back to the sender) and leaves the registry and the open
\* connections as they were.
C3_AbsentTargetDropped ==
    (last.kind = "signal" /\ last.to \notin last.before) =>
        /\ Recipients(last.emits) = {}
        /\ Len(last.emits) <= 1
        /\ peers = last.before
        /\ last.sock \in sockets

C3_Witness ==
    /\ last.kind = "signal"
    /\ last.to \in closed
    /\ last.from = last.sock
    /\ last.data = "offer"
    /\ Cardinality(peers) = 2
    /\ Recipients(last.emits) = {}

\* C4: the registered ids are exactly the connections held open, each
\* introduced once.
C4_RegistryIsOpenConnections ==
    /\ peers = sockets
    /\ \A id \in SocketIds : id \in peers <=> (id \in sockets /\ intros[id] >= 1)

C4_Witness ==
    /\ Cardinality(peers) = 2
    /\ peers = sockets
    /\ closed # {}

\* C5: an id whose disconnect was handled is not registered, and a later
\* signal addressed to it emits nothing.
C5_ClosedIdUnreachable ==
    /\ closed \cap peers = {}
    /\ (last.kind = "signal" /\ last.to \in closed) => last.emits = <<>>

C5_Witness ==
    /\ last.kind = "signal"
    /\ last.to \in closed
    /\ last.emits = <<>>
    /\ Cardinality(sockets) = 2

\* C6: a repeated "connection" event for a live socket registers nothing and
\* emits nothing, so every id gets one introduction and one newUserConnected.
C6_DuplicateConnectIgnored ==
    /\ Rejoined => (last.emits = <<>> /\ peers = last.before)
    /\ \A id \in SocketIds :
        /\ intros[id] = (IF id \in peers \cup closed THEN 1 ELSE 0)
        /\ joins[id] = intros[id]

C6_Witness ==
    /\ Rejoined
    /\ listeners[last.sock] = 2
    /\ intros[last.sock] = 1
    /\ joins[last.sock] = 1
    /\ Cardinality(peers) = 2

\* C7: what one sender submits to one target arrives at the target in the
\* order of submission.
C7_PerSenderOrder ==
    \A t \in SocketIds :
        \A i, j \in DOMAIN received[t] :
            (i < j /\ received[t][i].sender = received[t][j].sender)
                => received[t][i].n < received[t][j].n

C7_Witness ==
    \E t \in sockets :
        /\ Len(received[t]) = 2
        /\ received[t][1].sender = received[t][2].sender
        /\ received[t][1].sender # t
        /\ closed # {}

\* C8: on disconnect of id, id leaves the registry and userDisconnected(id)
\* goes to exactly the peers registered after the removal.
C8_LeftBroadcastToRemaining ==
    last.kind = "disconnect" =>
        /\ peers = last.before \ {last.sock}
        /\ Len(last.emits) = 1
        /\ last.emits[1].ev = "userDisconnected"
        /\ last.emits[1].args = <<last.sock>>
        /\ last.emits[1].rcpt = peers
        /\ last.sock \notin last.emits[1].rcpt

C8_Witness ==
    /\ last.kind = "disconnect"
    /\ last.sock \in last.before
    /\ Cardinality(peers) = 2
    /\ last.emits[1].rcpt = peers

\* C9: on a join of P, newUserConnected(P) goes to exactly the peers
\* registered after P's registration, P included.
C9_JoinedBroadcastToAll ==
    Joined =>
        /\ Cardinality(Named(last.emits, "newUserConnected")) = 1
        /\ \A i \in Named(last.emits, "newUserConnected") :
            /\ last.emits[i].args = <<last.sock>>
            /\ last.emits[i].rcpt = peers
            /\ last.emits[i].rcpt = last.before \cup {last.sock}

C9_Witness ==
    /\ Joined
    /\ Cardinality(last.before) = 2
    /\ \E i \in Named(last.emits, "newUserConnected") :
        last.emits[i].rcpt = last.before \cup {last.sock}

\* C10: a signal with `to`, `from` or `payload` missing is dropped: nothing
\* is delivered, the registry is unchanged and the sender stays registered.
C10_MalformedDropped ==
    Malformed =>
        /\ Recipients(last.emits) = {}
        /\ peers = last.before
        /\ last.sock \in peers

\* C11: a disconnect notification for an id that is not registered (a second
\* one for the same socket) leaves the registry as it was, without the id.
C11_RepeatedDisconnectNoOp ==
    (last.kind = "disconnect" /\ last.sock \notin last.before) =>
        /\ peers = last.before
        /\ last.sock \notin peers
        /\ last.sock \in closed

C11_Witness ==
    /\ last.kind = "disconnect"
    /\ last.sock \notin last.before
    /\ leaves[last.sock] = 2
    /\ Cardinality(peers) = 2
    /\ peers = last.before

\* C12: once the disconnect of an id has been handled, no later step
\* registers that id or introduces it again.
C12_ClosedIsFinal ==
    [][\A id \in closed : id \notin peers' /\ intros'[id] = intros[id]]_vars

C12_Witness ==
    /\ Joined
    /\ Cardinality(closed) = 2
    /\ closed \cap peers = {}
    /\ peers = {last.sock}

\* C14: an event changes the registry by at most its own socket: a
\* connection adds only the connecting id, a disconnect removes only the
\* disconnecting id, a signal of any kind changes nothing.
C14_RegistryFrame ==
    /\ last.kind = "connection" =>
            (last.before \subseteq peers /\ peers \ last.before \subseteq {last.sock})
    /\ last.kind = "disconnect" =>
            (peers \subseteq last.before /\ last.before \ peers \subseteq {last.sock})
    /\ last.kind = "signal" => peers = last.before

C14_Witness ==
    /\ Malformed
    /\ last.to \in peers
    /\ last.to # last.sock
    /\ Cardinality(peers) = 2
    /\ closed # {}
    /\ peers = last.before

\* C15: a signal is delivered exactly when `to` is registered at the moment
\* it is handled, and then `to` is an open connection; after the disconnect
\* of `to` nothing is delivered.
C15_CheckAndSendAtomic ==
    last.kind = "signal" =>
        /\ Recipients(last.emits) \cap closed = {}
        /\ IF last.to \in last.before
           THEN Recipients(last.emits) = {last.to} /\ last.to \in sockets
           ELSE Recipients(last.emits) = {}

C15_Witness ==
    /\ last.kind = "signal"
    /\ last.to \in closed
    /\ last.sock \in peers
    /\ last.data = "candidate"
    /\ Recipients(last.emits) = {}
    /\ \E id \in closed : id # last.to

\* what forwarding signal(to, from, data) to a registered `to` emits
ForwardOf(to, from, data) == << Message("signal", {to}, {}, <<from, to, data>>) >>

\* C16: for a registered `to`, what is forwarded is determined by
\* (to, from, data) alone, whichever connection submitted it and whether or
\* not `from` is its id or a registered id.
C16_SenderNotVerified ==
    (last.kind = "signal" /\ last.to \in last.before) =>
        last.emits = ForwardOf(last.to, last.from, last.data)

C16_Witness ==
    /\ last.kind = "signal"
    /\ last.to \in last.before
    /\ last.from \notin {last.sock, Undefined}
    /\ last.from \notin peers
    /\ last.emits = ForwardOf(last.to, last.from, last.data)

\* C17: a join emits, in one step, first the introduction to P alone (P
\* already registered) and then newUserConnected(P), which P receives.
C17_JoinOrder ==
    Joined =>
        /\ last.sock \in peers
        /\ Len(last.emits) = 2
        /\ last.emits[1].ev = "introduction"
        /\ last.emits[1].rcpt = {last.sock}
        /\ last.emits[2].ev = "newUserConnected"
        /\ last.emits[2].args = <<last.sock>>
        /\ last.sock \in last.emits[2].rcpt

C17_Witness ==
    /\ Joined
    /\ Cardinality(last.before) = 1
    /\ closed # {}
    /\ last.emits[1].rcpt = {last.sock}
    /\ last.emits[2].rcpt = peers

\* C18: userDisconnected(id) is never broadcast more often than
\* newUserConnected(id), so never before it.
C18_LeftOnlyIfJoined ==
    \A id \in SocketIds : leaves[id] <= joins[id] /\ joins[id] <= 1

C18_Witness ==
    /\ last.kind = "disconnect"
    /\ leaves[last.sock] = 1
    /\ joins[last.sock] = 1
    /\ Cardinality(closed) = 2

\* all three TURN variables are set and non-empty
AllSet(e) == Truthy(e.TURN_URL) /\ Truthy(e.TURN_USERNAME) /\ Truthy(e.TURN_PASSWORD)

\* the positions of the separators in url u, and the i-th piece between them
Commas(u) == {k \in DOMAIN u : u[k] = ","}

PieceStart(u, i) ==
    IF i = 1 THEN 1
    ELSE 1 + (CHOOSE k \in Commas(u) : Cardinality({j \in Commas(u) : j < k}) = i - 2)

PieceEnd(u, i) ==
    IF i = Cardinality(Commas(u)) + 1 THEN Len(u)
    ELSE (CHOOSE k \in Commas(u) : Cardinality({j \in Commas(u) : j < k}) = i - 1) - 1

\* the i-th comma-separated entry of u without the white space around it
Entry(u, i) ==
    LET solid == {k \in PieceStart(u, i)..PieceEnd(u, i) : u[k] # " "} IN
    IF solid = {} THEN <<>>
    ELSE SubSeq(u, CHOOSE k \in solid : \A j \in solid : k <= j,
                   CHOOSE k \in solid : \A j \in solid : k >= j)

\* list holds the comma-separated entries of u, trimmed, in order
IsEntriesOf(list, u) ==
    /\ Len(list) = Cardinality(Commas(u)) + 1
    /\ \A i \in DOMAIN list : list[i] = Entry(u, i)

\* C13: the index.ts handler answers with the STUN descriptor first, and
\* with the TURN descriptor (trimmed comma-separated urls, username,
\* credential) second exactly when all three variables are set and non-empty.
C13_IceConfigComposition ==
    response.current # <<>> =>
        /\ response.current[1] = StunDescriptor
        /\ response.current[1].urls.list = <<<<"stun:stun.l.google.com:19302">>>>
        /\ IF AllSet(env)
           THEN /\ Len(response.current) = 2
                /\ response.current[2].urls.kind = "list"
                /\ IsEntriesOf(response.current[2].urls.list, env.TURN_URL.str)
                /\ response.current[2].username = env.TURN_USERNAME
                /\ response.current[2].credential = env.TURN_PASSWORD
           ELSE Len(response.current) = 1

C13_Witness ==
    /\ AllSet(env)
    /\ env.TURN_URL.str = <<" ", "t", ",">>
    /\ Len(response.current) = 2
    /\ response.current[2].urls.list = << <<"t">>, <<>> >>

\* the field of the earlier variant's second descriptor is undefined
\* wherever the variable is unset or empty
MissingAreUndefined(d, e) ==
    /\ ~Truthy(e.TURN_URL) => d.urls.kind = "undefined"
    /\ ~Truthy(e.TURN_USERNAME) => d.username = Unset
    /\ ~Truthy(e.TURN_PASSWORD) => d.credential = Unset

\* C19 as stated: the two handlers agree when all three variables are set
\* and non-empty; otherwise the earlier one answers with two descriptors, the
\* second with every missing field undefined, and index.ts with STUN alone.
C19_EarlierVariantUndefinedFields ==
    (response.current # <<>> /\ response.earlier # <<>>) =>
        IF AllSet(env)
        THEN response.current = response.earlier
        ELSE /\ Len(response.earlier) = 2
             /\ MissingAreUndefined(response.earlier[2], env)
             /\ response.current = <<StunDescriptor>>

\* C19 as amended: otherwise the earlier one answers with two descriptors,
\* the second carrying each variable as it is (undefined when unset, the
\* empty string or the list [""] when empty), and index.ts with STUN alone.
C19_EarlierVariantRawFields ==
    (response.current # <<>> /\ response.earlier # <<>>) =>
        IF AllSet(env)
        THEN response.current = response.earlier
        ELSE /\ Len(response.earlier) = 2
             /\ response.earlier[1] = StunDescriptor
             /\ response.earlier[2].username = env.TURN_USERNAME
             /\ response.earlier[2].credential = env.TURN_PASSWORD
             /\ IF env.TURN_URL.set
                THEN /\ response.earlier[2].urls.kind = "list"
                     /\ IsEntriesOf(response.earlier[2].urls.list, env.TURN_URL.str)
                ELSE response.earlier[2].urls = UrlUndefined
             /\ response.current = <<StunDescriptor>>

C19_Witness ==
    /\ env.TURN_URL = Str(<<>>)
    /\ env.TURN_USERNAME = Unset
    /\ env.TURN_PASSWORD = Str(<<"u">>)
    /\ response.current = <<StunDescriptor>>
    /\ Len(response.earlier) = 2
    /\ response.earlier[2].urls.list = << <<>> >>
    /\ response.earlier[2].username = Unset
====
